---- MODULE Spec2Model ----
(***************************************************************************)
(* Inventory alert service (src/main.py): the persisted alert ledger, the  *)
(* snapshot evaluation loop of check_inventory, check_reminders, the       *)
(* notifier send_inventory_alert and the two Flask entry points.           *)
(*                                                                         *)
(* Time is counted in days: datetime.now() is an integer, and              *)
(* timedelta(days=REMINDER_DAYS) adds REMINDER_DAYS to it.                 *)
(***************************************************************************)
EXTENDS Integers, Sequences, FiniteSets, TLC

\* ------------------------------------------------------------------------
\* Configuration (src/main.py:20-21) and the bounds of the model
\* ------------------------------------------------------------------------
INVENTORY_THRESHOLD == 2
REMINDER_DAYS == 7

\* largest clock value an invocation may start at
MaxTime == 8
\* largest number of days the clock may advance inside one invocation
MaxLatency == 1
\* largest inventory_quantity the catalog reports
MaxInventory == 3

\* the catalog's variants, in the order the products endpoint lists them
VariantOrder == <<100, 200>>

\* str(variant["id"]) (line 60)
str(id) == CASE id = 100 -> "100" [] id = 200 -> "200"

VariantIds == {str(VariantOrder[i]) : i \in 1..Len(VariantOrder)}

Inventories == 0..MaxInventory

\* datetime.isoformat() and datetime.fromisoformat(): the ledger keeps
\* timestamps as ISO-8601 text, check_reminders parses them back
isoformat(t) == [iso |-> t]
fromisoformat(s) == s.iso

\* ------------------------------------------------------------------------
\* Python dict operations on a function with a finite domain
\* ------------------------------------------------------------------------
DictSet(d, k, x) == [j \in (DOMAIN d) \cup {k} |-> IF j = k THEN x ELSE d[j]]
DictDel(d, k) == [j \in (DOMAIN d) \ {k} |-> d[j]]
EmptyDict == [j \in {} |-> 0]

\* ------------------------------------------------------------------------
\* Ledger store (lines 23-42)
\* ------------------------------------------------------------------------
EmptyLedger == [alerted_items |-> EmptyDict, pending_reminders |-> EmptyDict]

\* the bucket holds no inventory_alerts.json
NoBlob == [absent |-> TRUE]

\* a variant of lines 33-35 that hands back the stored ledger when the read
\* raised
load_inventory_alerts_stale(stored, readOk) ==
    IF stored = NoBlob THEN EmptyLedger ELSE stored

\* readOk = FALSE: blob.exists() or download_as_string() raised
load_inventory_alerts(stored, readOk) ==
    IF ~readOk THEN EmptyLedger
    ELSE IF stored = NoBlob THEN EmptyLedger
    ELSE stored

\* a variant of lines 37-42 whose upload never reaches the bucket
save_inventory_alerts_dropped(stored, alert_data, writeOk) == stored

\* writeOk = FALSE: upload_from_string() raised; the error is printed
save_inventory_alerts(stored, alert_data, writeOk) ==
    IF writeOk THEN alert_data ELSE stored

\* ------------------------------------------------------------------------
\* Snapshot evaluation: the loop body of check_inventory (lines 58-89)
\* ------------------------------------------------------------------------
\* one variant of the products response
Variant(id, qty) == [id |-> id, title |-> "variant", product |-> "product",
                     inventory_quantity |-> qty]

\* a variant of lines 66-67 that compares with <= in place of <
NeedsAlertOrEqual(alert_data, variant_id, inventory) ==
    \/ variant_id \notin DOMAIN alert_data.alerted_items
    \/ alert_data.alerted_items[variant_id].inventory <= inventory

\* a variant of lines 66-67 that compares with > in place of <
NeedsAlertOnDrop(alert_data, variant_id, inventory) ==
    \/ variant_id \notin DOMAIN alert_data.alerted_items
    \/ alert_data.alerted_items[variant_id].inventory > inventory

\* the condition of lines 66-67
NeedsAlert(alert_data, variant_id, inventory) ==
    \/ variant_id \notin DOMAIN alert_data.alerted_items
    \/ alert_data.alerted_items[variant_id].inventory < inventory

\* lines 68-73: the entry appended to low_inventory_items
AlertItem(variant, variant_id, inventory) ==
    [product_title |-> variant.product, variant_title |-> variant.title,
     inventory |-> inventory, variant_id |-> variant_id]

\* a variant of lines 75-82 that schedules the reminder a day early
TrackAlertEarly(alert_data, variant_id, inventory, current_time, nowRead) ==
    [alerted_items |->
        DictSet(alert_data.alerted_items, variant_id,
                [last_alert |-> current_time, inventory |-> inventory]),
     pending_reminders |->
        DictSet(alert_data.pending_reminders, variant_id,
                isoformat(nowRead + REMINDER_DAYS - 1))]

\* a variant of lines 75-82 that assigns a new pending_reminders dict
TrackAlertAlone(alert_data, variant_id, inventory, current_time, nowRead) ==
    [alerted_items |->
        DictSet(alert_data.alerted_items, variant_id,
                [last_alert |-> current_time, inventory |-> inventory]),
     pending_reminders |->
        DictSet(EmptyDict, variant_id, isoformat(nowRead + REMINDER_DAYS))]

\* lines 75-82: current_time is the text made at line 52, nowRead the value
\* of the second datetime.now() at line 80
TrackAlert(alert_data, variant_id, inventory, current_time, nowRead) ==
    [alerted_items |->
        DictSet(alert_data.alerted_items, variant_id,
                [last_alert |-> current_time, inventory |-> inventory]),
     pending_reminders |->
        DictSet(alert_data.pending_reminders, variant_id,
                isoformat(nowRead + REMINDER_DAYS))]

\* a variant of lines 87-89 without lines 88-89
ReplenishKeepsReminder(alert_data, variant_id) ==
    [alerted_items |-> DictDel(alert_data.alerted_items, variant_id),
     pending_reminders |-> alert_data.pending_reminders]

\* lines 87-89
Replenish(alert_data, variant_id) ==
    [alerted_items |-> DictDel(alert_data.alerted_items, variant_id),
     pending_reminders |-> DictDel(alert_data.pending_reminders, variant_id)]

\* lines 60-89 for one variant; st = [alert_data, low_inventory_items]
EvalVariant(st, variant, current_time, nowRead) ==
    LET variant_id == str(variant.id)
        inventory == variant.inventory_quantity
    IN IF inventory <= INVENTORY_THRESHOLD
       THEN IF NeedsAlert(st.alert_data, variant_id, inventory)
            THEN [alert_data |-> TrackAlert(st.alert_data, variant_id, inventory,
                                            current_time, nowRead),
                  low_inventory_items |->
                      Append(st.low_inventory_items,
                             AlertItem(variant, variant_id, inventory))]
            ELSE st
       ELSE IF variant_id \in DOMAIN st.alert_data.alerted_items
            THEN [alert_data |-> Replenish(st.alert_data, variant_id),
                  low_inventory_items |-> st.low_inventory_items]
            ELSE st

\* lines 58-59: the loop over the snapshot; reads[i] is what datetime.now()
\* returns at line 80 while variant i is handled
RECURSIVE EvalLoop(_, _, _, _, _)
EvalLoop(st, variants, i, current_time, reads) ==
    IF i > Len(variants) THEN st
    ELSE EvalLoop(EvalVariant(st, variants[i], current_time, reads[i]),
                  variants, i + 1, current_time, reads)

Evaluate(alert_data, variants, current_time, reads) ==
    EvalLoop([alert_data |-> alert_data, low_inventory_items |-> <<>>],
             variants, 1, current_time, reads)

\* ------------------------------------------------------------------------
\* Notifier: send_inventory_alert (lines 104-134)
\* ------------------------------------------------------------------------
\* the keys the body loop reads from every item (lines 114-118)
BodyKeys == {"product_title", "variant_title", "inventory"}

\* The sendgrid package and the ALERT_* environment variables are there
\* (lines 105-109 do not raise).
\* "raised": item[...] raised KeyError at lines 116-117, before the try of
\* line 129, so the exception leaves the function; "sent": sg.send returned;
\* "failed": the try block raised and line 134 printed the error
send_inventory_alert(items, is_reminder, deliverOk) ==
    [subject |-> IF ~is_reminder THEN "Low Inventory Alert"
                 ELSE "Low Inventory Reminder",
     items |-> items,
     outcome |-> IF \E i \in 1..Len(items) : ~(BodyKeys \subseteq DOMAIN items[i])
                 THEN "raised"
                 ELSE IF deliverOk THEN "sent" ELSE "failed"]

\* no call of send_inventory_alert
NoNotice == [subject |-> "", items |-> <<>>, outcome |-> "none"]

\* ------------------------------------------------------------------------
\* Reminder scheduler: check_reminders (lines 136-154)
\* ------------------------------------------------------------------------
\* lines 146-149: the reminder entry carries the variant id alone
ReminderItem(variant_id) == [variant_id |-> variant_id]

\* list(alert_data["pending_reminders"].items()) (line 140), listed in
\* catalog order
RECURSIVE PendingKeys(_, _)
PendingKeys(pending, i) ==
    IF i > Len(VariantOrder) THEN <<>>
    ELSE (IF str(VariantOrder[i]) \in DOMAIN pending
          THEN <<str(VariantOrder[i])>> ELSE <<>>)
         \o PendingKeys(pending, i + 1)

\* a variant of line 144 that takes a reminder as due only after its date
RemindVariantLate(st, variant_id, reminder_date, current_time) ==
    IF current_time > fromisoformat(reminder_date)
    THEN [alert_data |->
              [alerted_items |-> st.alert_data.alerted_items,
               pending_reminders |->
                   DictDel(st.alert_data.pending_reminders, variant_id)],
          reminder_items |->
              IF variant_id \in DOMAIN st.alert_data.alerted_items
              THEN Append(st.reminder_items, ReminderItem(variant_id))
              ELSE st.reminder_items]
    ELSE st

\* lines 141-151 for one entry of the copied list;
\* st = [alert_data, reminder_items]
RemindVariant(st, variant_id, reminder_date, current_time) ==
    IF current_time >= fromisoformat(reminder_date)
    THEN [alert_data |->
              [alerted_items |-> st.alert_data.alerted_items,
               pending_reminders |->
                   DictDel(st.alert_data.pending_reminders, variant_id)],
          reminder_items |->
              IF variant_id \in DOMAIN st.alert_data.alerted_items
              THEN Append(st.reminder_items, ReminderItem(variant_id))
              ELSE st.reminder_items]
    ELSE st

RECURSIVE RemindLoop(_, _, _, _, _)
RemindLoop(st, keys, pending, i, current_time) ==
    IF i > Len(keys) THEN st
    ELSE RemindLoop(RemindVariant(st, keys[i], pending[keys[i]], current_time),
                    keys, pending, i + 1, current_time)

\* the whole of check_reminders: the mutated ledger, the due list and the
\* notifier call of lines 153-154; raised = an exception left the function
check_reminders(alert_data, current_time, deliverOk) ==
    LET st == RemindLoop([alert_data |-> alert_data, reminder_items |-> <<>>],
                         PendingKeys(alert_data.pending_reminders, 1),
                         alert_data.pending_reminders, 1, current_time)
        notice == IF st.reminder_items # <<>>
                  THEN send_inventory_alert(st.reminder_items, TRUE, deliverOk)
                  ELSE NoNotice
    IN [alert_data |-> st.alert_data,
        reminder_items |-> st.reminder_items,
        notice |-> notice,
        raised |-> notice.outcome = "raised"]

\* ------------------------------------------------------------------------
\* Orchestrator: check_inventory (lines 44-102)
\* ------------------------------------------------------------------------
\* what one call did; stored is the bucket's content when it returns
Idle(stored) ==
    [raised |-> FALSE, loaded |-> FALSE, fetched |-> "none",
     alert_data |-> EmptyLedger, low_inventory_items |-> <<>>,
     alert |-> "none", scheduled |-> FALSE, reminder_items |-> <<>>,
     reminder |-> "none", saveCalled |-> FALSE, stored |-> stored]

\* lines 45-48: SHOPIFY_ACCESS_TOKEN and SHOPIFY_STORE_NAME are names the
\* module never binds; where nothing else binds them the dict display of
\* line 45 raises NameError, outside the try, before the ledger is loaded
NamesUnbound(stored) == [Idle(stored) EXCEPT !.raised = TRUE]

\* a variant of lines 101-102 that saves the loaded ledger before returning
FetchFailedSaves(stored, alert_data) ==
    [Idle(stored) EXCEPT !.loaded = TRUE, !.fetched = "error",
                         !.alert_data = alert_data, !.saveCalled = TRUE,
                         !.stored = alert_data]

\* lines 101-102 after requests.get, response.json() or the loop raised:
\* the error is printed and the function returns
FetchFailed(stored, alert_data) ==
    [Idle(stored) EXCEPT !.loaded = TRUE, !.fetched = "error",
                         !.alert_data = alert_data]

\* lines 91-102 once the loop has finished; ev is the loop's result
Conclude(stored, ev, in) ==
    LET notice == IF ev.low_inventory_items # <<>>
                  THEN send_inventory_alert(ev.low_inventory_items, FALSE,
                                            in.alertOk)
                  ELSE NoNotice
        rem == check_reminders(ev.alert_data, in.remNow, in.remOk)
        base == [Idle(stored) EXCEPT
                    !.loaded = TRUE, !.fetched = "ok",
                    !.low_inventory_items = ev.low_inventory_items,
                    !.alert = notice.outcome,
                    !.scheduled = TRUE,
                    !.alert_data = rem.alert_data,
                    !.reminder_items = rem.reminder_items,
                    !.reminder = rem.notice.outcome]
    IN IF rem.raised
       THEN base   \* line 101 catches it: line 99 is skipped
       ELSE [base EXCEPT
                !.saveCalled = TRUE,
                !.stored = save_inventory_alerts(stored, rem.alert_data,
                                                 in.writeOk)]

\* in: the environment of one call.  bound: the module names are bound;
\* readOk, fetchOk, alertOk, remOk, writeOk: the outcome of each external
\* call; variants: the snapshot; now: datetime.now() at line 52; reads: at
\* line 80; remNow: at line 137
check_inventory(stored, in) ==
    IF ~in.bound THEN NamesUnbound(stored)
    ELSE LET alert_data == load_inventory_alerts(stored, in.readOk)
             current_time == isoformat(in.now)
         IN IF ~in.fetchOk THEN FetchFailed(stored, alert_data)
            ELSE Conclude(stored,
                          Evaluate(alert_data, in.variants, current_time,
                                   in.reads),
                          in)

\* ------------------------------------------------------------------------
\* Trigger surface (lines 158-221)
\* ------------------------------------------------------------------------
\* os.getenv('SHOPIFY_WEBHOOK_SECRET')
WebhookSecret == "secret"

\* base64(HMAC-SHA256(key, body)): one text per key and body
hmac_b64(key, body) == key \o "/" \o body

\* request.headers.get(name, default)
HeaderGet(request, name, default) ==
    IF name \in DOMAIN request.headers THEN request.headers[name] ELSE default

\* verify_shopify_webhook (lines 158-181): TRUE when f is called; a missing
\* header (None) and an empty one are both falsy at line 164
verify_shopify_webhook(request) ==
    LET shopify_hmac == HeaderGet(request, "X-Shopify-Hmac-Sha256", "")
    IN IF shopify_hmac = "" THEN FALSE            \* lines 164-165
       ELSE hmac_b64(WebhookSecret, request.body) = shopify_hmac

\* an Authorization value is its scheme and its credentials, which the
\* header joins with one space
NoAuthorization == [scheme |-> "", credentials |-> ""]

\* verify_cloud_scheduler (lines 183-200): TRUE when f is called
verify_cloud_scheduler(request) ==
    HeaderGet(request, "Authorization", NoAuthorization).scheme = "Bearer"

\* handle_order_webhook behind its decorator (lines 202-210)
handle_order_webhook(stored, request, in) ==
    IF ~verify_shopify_webhook(request)
    THEN [status |-> 403, run |-> Idle(stored)]
    ELSE LET run == check_inventory(stored, in)
         IN [status |-> IF run.raised THEN 500 ELSE 200, run |-> run]

\* a variant of lines 215-221 that saves the ledger check_reminders left
handle_reminder_check_saving(stored, request, in) ==
    IF ~verify_cloud_scheduler(request)
    THEN [status |-> 403, run |-> Idle(stored)]
    ELSE LET alert_data == load_inventory_alerts(stored, in.readOk)
             rem == check_reminders(alert_data, in.remNow, in.remOk)
         IN [status |-> IF rem.raised THEN 500 ELSE 200,
             run |-> [Idle(stored) EXCEPT
                         !.raised = rem.raised,
                         !.loaded = TRUE,
                         !.scheduled = TRUE,
                         !.alert_data = rem.alert_data,
                         !.reminder_items = rem.reminder_items,
                         !.reminder = rem.notice.outcome,
                         !.saveCalled = TRUE,
                         !.stored = save_inventory_alerts(stored, rem.alert_data,
                                                          in.writeOk)]]

\* handle_reminder_check behind its decorator (lines 212-221)
handle_reminder_check(stored, request, in) ==
    IF ~verify_cloud_scheduler(request)
    THEN [status |-> 403, run |-> Idle(stored)]
    ELSE LET alert_data == load_inventory_alerts(stored, in.readOk)
             rem == check_reminders(alert_data, in.remNow, in.remOk)
         IN [status |-> IF rem.raised THEN 500 ELSE 200,
             run |-> [Idle(stored) EXCEPT
                         !.raised = rem.raised,
                         !.loaded = TRUE,
                         !.scheduled = TRUE,
                         !.alert_data = rem.alert_data,
                         !.reminder_items = rem.reminder_items,
                         !.reminder = rem.notice.outcome]]

\* ------------------------------------------------------------------------
\* State
\* ------------------------------------------------------------------------
VARIABLES
    stored,   \* the bucket's inventory_alerts.json, or NoBlob
    clock,    \* datetime.now()
    last,     \* the latest request: endpoint, response status, what ran
    hist,     \* per variant, what the invocations so far did with it
    ev        \* an evaluation of a snapshot on its own: inputs and results

vars == <<stored, clock, last, hist, ev>>

Min(a, b) == IF a < b THEN a ELSE b

\* ------------------------------------------------------------------------
\* The environment: requests and the outcomes of the external calls
\* ------------------------------------------------------------------------
\* the catalog's snapshots over the variants order[i..]: any subset of them,
\* each with any quantity
RECURSIVE SnapshotsFrom(_, _)
SnapshotsFrom(order, i) ==
    IF i > Len(order) THEN {<<>>}
    ELSE LET rest == SnapshotsFrom(order, i + 1)
         IN rest \cup {<<Variant(order[i], q)>> \o r : q \in Inventories, r \in rest}

\* n successive clock readings between lo and hi
ClockReads(n, lo, hi) ==
    {r \in [1..n -> lo..hi] : \A i \in 1..(n - 1) : r[i] <= r[i + 1]}

\* a call that never reaches the external calls
NoInput(t) ==
    [bound |-> FALSE, readOk |-> TRUE, fetchOk |-> FALSE, variants |-> <<>>,
     now |-> t, reads |-> <<>>, remNow |-> t, alertOk |-> TRUE,
     remOk |-> TRUE, writeOk |-> TRUE]

\* the environments of one check_inventory call started at time t over the
\* catalog order; oks = the outcomes an external call may have.  The call
\* is over within the day: every clock reading in it gives t.  The mail
\* provider is up or down for the whole call.
OrderInputs(t, order, oks) ==
    (IF FALSE \in oks
     THEN {NoInput(t)}
          \cup {[NoInput(t) EXCEPT !.bound = TRUE, !.readOk = rd] : rd \in oks}
     ELSE {})
    \cup {[bound |-> TRUE, readOk |-> rd, fetchOk |-> TRUE, variants |-> vs,
           now |-> t, reads |-> [i \in 1..Len(vs) |-> t], remNow |-> t,
           alertOk |-> mo, remOk |-> mo, writeOk |-> wo] :
              rd \in oks, mo \in oks, wo \in oks,
              vs \in SnapshotsFrom(order, 1)}

\* the environments of one handle_reminder_check call started at time t
ReminderInputs(t, oks) ==
    {[NoInput(t) EXCEPT !.bound = TRUE, !.readOk = rd, !.remOk = ro] :
        rd \in oks, ro \in oks}

Request(headers, body) == [headers |-> headers, body |-> body]

\* what Shopify posts: the body signed with the shared secret
ShopifyRequests ==
    {Request([h \in {"X-Shopify-Hmac-Sha256"} |-> hmac_b64(WebhookSecret, "order")],
             "order")}

\* what anyone else can post: no signature, an empty one, one made with
\* another key, one taken from another body
UnsignedRequests ==
    {Request(EmptyDict, "order")}
    \cup {Request([h \in {"X-Shopify-Hmac-Sha256"} |-> sig], "order") :
            sig \in {"", hmac_b64("guess", "order"),
                     hmac_b64(WebhookSecret, "refund")}}

\* the identity token Cloud Scheduler attaches
SchedulerToken == "oidc"

SchedulerRequests ==
    {Request([h \in {"Authorization"} |->
                 [scheme |-> "Bearer", credentials |-> SchedulerToken]], "")}

\* no Authorization header, another scheme, a bearer token nobody issued
UnauthorizedRequests ==
    {Request(EmptyDict, "")}
    \cup {Request([h \in {"Authorization"} |-> a], "") :
            a \in {[scheme |-> "Basic", credentials |-> "abc"],
                   [scheme |-> "Bearer", credentials |-> "forged"]}}

\* ------------------------------------------------------------------------
\* History
\* ------------------------------------------------------------------------
\* per variant: steady = every quantity fetched for it so far was at most
\* the threshold and no larger than the one before; seen = the quantity
\* fetched last (-1: none); alerts = the invocations that put it in a
\* "Low Inventory Alert" call, counted up to 2 and while steady;
\* due = the invocations that put its pending reminder on the due list
\* since the alert that made the reminder, counted up to 2
Unseen == [steady |-> TRUE, seen |-> -1, alerts |-> 0, due |-> 0]

ItemIds(items) == {items[i].variant_id : i \in 1..Len(items)}

Fetched(variants, v) == {variants[i].inventory_quantity :
                            i \in {j \in 1..Len(variants) : str(variants[j].id) = v}}

Track(h, v, run, variants) ==
    LET qs == IF run.fetched = "ok" THEN Fetched(variants, v) ELSE {}
        steady == h.steady /\ \A q \in qs :
                      q <= INVENTORY_THRESHOLD /\ (h.seen = -1 \/ q <= h.seen)
        alertedNow == v \in ItemIds(run.low_inventory_items) /\ run.alert # "none"
        raisedNow == v \in ItemIds(run.low_inventory_items)
        dueNow == v \in ItemIds(run.reminder_items)
    IN [steady |-> steady,
        seen |-> IF ~steady THEN -1
                 ELSE IF qs = {} THEN h.seen ELSE CHOOSE q \in qs : TRUE,
        alerts |-> IF ~steady THEN 0
                   ELSE IF alertedNow THEN Min(h.alerts + 1, 2) ELSE h.alerts,
        due |-> IF raisedNow THEN (IF dueNow THEN 1 ELSE 0)
                ELSE IF dueNow THEN Min(h.due + 1, 2) ELSE h.due]

\* ------------------------------------------------------------------------
\* Actions
\* ------------------------------------------------------------------------
NoEval == [phase |-> "off"]

Init ==
    /\ stored = NoBlob
    /\ clock = 0
    /\ last = [op |-> "none", authentic |-> FALSE, status |-> 0,
               run |-> Idle(NoBlob)]
    /\ hist = [v \in VariantIds |-> Unseen]
    /\ ev = NoEval

\* POST / : one request, answered before the next one is taken
OrderStep(request, in) ==
    LET resp == handle_order_webhook(stored, request, in)
    IN /\ stored' = resp.run.stored
       /\ clock' = IF resp.run.fetched = "ok" THEN in.remNow ELSE clock
       /\ last' = [op |-> "order", authentic |-> request \in ShopifyRequests,
                   status |-> resp.status, run |-> resp.run]
       /\ hist' = [v \in VariantIds |-> Track(hist[v], v, resp.run, in.variants)]
       /\ UNCHANGED ev

HandleOrderWebhook(order, oks) ==
    \E request \in ShopifyRequests \cup UnsignedRequests :
        IF verify_shopify_webhook(request)
        THEN \E in \in OrderInputs(clock, order, oks) : OrderStep(request, in)
        ELSE OrderStep(request, NoInput(clock))

\* POST /check-reminders
ReminderStep(request, in) ==
    LET resp == handle_reminder_check(stored, request, in)
    IN /\ stored' = resp.run.stored
       /\ clock' = IF resp.run.loaded THEN in.remNow ELSE clock
       /\ last' = [op |-> "reminders", authentic |-> request \in SchedulerRequests,
                   status |-> resp.status, run |-> resp.run]
       /\ hist' = [v \in VariantIds |-> Track(hist[v], v, resp.run, <<>>)]
       /\ UNCHANGED ev

HandleReminderCheck(oks) ==
    \E request \in SchedulerRequests \cup UnauthorizedRequests :
        IF verify_cloud_scheduler(request)
        THEN \E in \in ReminderInputs(clock, oks) : ReminderStep(request, in)
        ELSE ReminderStep(request, NoInput(clock))

\* time passes between two requests
Elapse(days) ==
    /\ \E d \in days : clock + d <= MaxTime /\ clock' = clock + d
    /\ UNCHANGED <<stored, last, hist, ev>>

Tick == Elapse(1..MaxTime)

\* a catalog of one variant, every outcome of every external call
OrderWebhook == HandleOrderWebhook(SubSeq(VariantOrder, 1, 1), BOOLEAN)
ReminderCheck == HandleReminderCheck(BOOLEAN)

Next == OrderWebhook \/ ReminderCheck \/ Tick

Spec == Init /\ [][Next]_vars

\* the whole catalog, full checks only, every external call succeeding, a
\* reminder horizon passing at a time
OrderWebhookPair == HandleOrderWebhook(VariantOrder, {TRUE})
TickHorizon == Elapse({REMINDER_DAYS})

NextPair == OrderWebhookPair \/ TickHorizon

SpecPair == Init /\ [][NextPair]_vars

\* ------------------------------------------------------------------------
\* The evaluation loop on its own: any ledger, any snapshot, run twice
\* ------------------------------------------------------------------------
\* the ledgers the service writes (an alert is recorded only for a quantity
\* within the threshold, line 64) and those edited in the bucket: a
\* reminder may be there without its alert.  The ledger was written at
\* time 0 and the snapshot is evaluated from time 0 on
Ledgers ==
    LET alerts == {[last_alert |-> isoformat(0), inventory |-> q] :
                      q \in 0..INVENTORY_THRESHOLD}
        dues == {isoformat(REMINDER_DAYS)}
    IN UNION { UNION {
         {[alerted_items |-> a, pending_reminders |-> p] :
              a \in [A -> alerts], p \in [P -> dues]} :
         A \in SUBSET VariantIds} : P \in SUBSET VariantIds}

EvalInputs ==
    UNION { UNION {
        {[phase |-> "input", alert_data |-> l, variants |-> vs,
          now |-> 0, reads |-> rs] : l \in Ledgers} :
        rs \in ClockReads(Len(vs), 0, MaxLatency)} :
        vs \in SnapshotsFrom(VariantOrder, 1)}

InitEval ==
    /\ stored = NoBlob
    /\ clock = 0
    /\ last = [op |-> "none", authentic |-> FALSE, status |-> 0,
               run |-> Idle(NoBlob)]
    /\ hist = [v \in VariantIds |-> Unseen]
    /\ ev \in EvalInputs

\* lines 58-89 on the ledger and the snapshot drawn
EvalFirst ==
    /\ ev.phase = "input"
    /\ ev' = [phase |-> "first", alert_data |-> ev.alert_data,
              variants |-> ev.variants, now |-> ev.now, reads |-> ev.reads,
              out |-> Evaluate(ev.alert_data, ev.variants, isoformat(ev.now),
                               ev.reads)]
    /\ UNCHANGED <<stored, clock, last, hist>>

\* lines 58-89 once more, later, on the ledger the first run left and the
\* same snapshot
EvalSecond ==
    /\ ev.phase = "first"
    /\ \E t \in ev.now..(ev.now + MaxLatency) :
          ev' = [phase |-> "second", alert_data |-> ev.alert_data,
                 variants |-> ev.variants, now |-> ev.now, reads |-> ev.reads,
                 out |-> ev.out,
                 again |-> Evaluate(ev.out.alert_data, ev.variants,
                                    isoformat(t),
                                    [i \in 1..Len(ev.variants) |-> t])]
    /\ UNCHANGED <<stored, clock, last, hist>>

NextEval == EvalFirst \/ EvalSecond

SpecEval == InitEval /\ [][NextEval]_vars

\* ------------------------------------------------------------------------
\* One invocation on any stored ledger
\* ------------------------------------------------------------------------
\* as Ledgers, each reminder due at the horizon or at the end of time
StoredLedgers ==
    LET alerts == {[last_alert |-> isoformat(0), inventory |-> q] :
                      q \in 0..INVENTORY_THRESHOLD}
        dues == {isoformat(REMINDER_DAYS), isoformat(MaxTime)}
    IN UNION { UNION {
         {[alerted_items |-> a, pending_reminders |-> p] :
              a \in [A -> alerts], p \in [P -> dues]} :
         A \in SUBSET VariantIds} : P \in SUBSET VariantIds}

Ready == [phase |-> "ready"]

\* the bucket is empty or holds any ledger; the request arrives on the eve
\* of the horizon or later
InitOnce ==
    /\ stored \in {NoBlob} \cup StoredLedgers
    /\ clock \in (REMINDER_DAYS - 1)..MaxTime
    /\ last = [op |-> "none", authentic |-> FALSE, status |-> 0,
               run |-> Idle(NoBlob)]
    /\ hist = [v \in VariantIds |-> Unseen]
    /\ ev = Ready

\* the one request is a POST / ; ev keeps what the bucket held and the
\* environment the call met
RunOrder ==
    /\ ev = Ready
    /\ \E request \in ShopifyRequests \cup UnsignedRequests :
       \E in \in IF verify_shopify_webhook(request)
                 THEN OrderInputs(clock, VariantOrder, BOOLEAN)
                 ELSE {NoInput(clock)} :
          LET resp == handle_order_webhook(stored, request, in)
          IN /\ stored' = resp.run.stored
             /\ last' = [op |-> "order",
                         authentic |-> request \in ShopifyRequests,
                         status |-> resp.status, run |-> resp.run]
             /\ ev' = [phase |-> "ran", before |-> stored, in |-> in]
    /\ UNCHANGED <<clock, hist>>

\* the one request is a POST /check-reminders
RunReminder ==
    /\ ev = Ready
    /\ \E request \in SchedulerRequests \cup UnauthorizedRequests :
       \E in \in IF verify_cloud_scheduler(request)
                 THEN ReminderInputs(clock, BOOLEAN)
                 ELSE {NoInput(clock)} :
          LET resp == handle_reminder_check(stored, request, in)
          IN /\ stored' = resp.run.stored
             /\ last' = [op |-> "reminders",
                         authentic |-> request \in SchedulerRequests,
                         status |-> resp.status, run |-> resp.run]
             /\ ev' = [phase |-> "ran", before |-> stored, in |-> in]
    /\ UNCHANGED <<clock, hist>>

NextOnce == RunOrder \/ RunReminder

SpecOnce == InitOnce /\ [][NextOnce]_vars

\* ------------------------------------------------------------------------
\* Two full checks at once on one bucket
\* ------------------------------------------------------------------------
\* the instances serving the two requests
Procs == {1, 2}

\* the catalog both fetch: the first variant, or nothing
RaceCatalog == SubSeq(VariantOrder, 1, 1)

\* per instance: pc = where it is in check_inventory; now = current_time of
\* line 52; base = the ledger it loaded; alert_data = the ledger it holds;
\* wrote = its upload reached the bucket.  log lists the loads and the
\* saves in the order they happened
InitRace ==
    /\ stored \in {NoBlob} \cup Ledgers
    /\ clock = 0
    /\ last = [op |-> "none", authentic |-> FALSE, status |-> 0,
               run |-> Idle(NoBlob)]
    /\ hist = [v \in VariantIds |-> Unseen]
    /\ ev = [phase |-> "race",
             pc |-> [p \in Procs |-> "start"],
             now |-> [p \in Procs |-> 0],
             base |-> [p \in Procs |-> EmptyLedger],
             alert_data |-> [p \in Procs |-> EmptyLedger],
             wrote |-> [p \in Procs |-> FALSE],
             log |-> <<>>]

\* lines 51-52
RaceLoad(p) ==
    /\ ev.pc[p] = "start"
    /\ ev' = [ev EXCEPT !.pc[p] = "loaded",
                        !.now[p] = clock,
                        !.base[p] = load_inventory_alerts(stored, TRUE),
                        !.alert_data[p] = load_inventory_alerts(stored, TRUE),
                        !.log = Append(@, <<p, "load">>)]
    /\ UNCHANGED <<stored, clock, last, hist>>

\* lines 55-96: the fetch, the loop, the alert and check_reminders, all on
\* the instance's own ledger; an exception ends the call at line 102
RaceMutate(p) ==
    /\ ev.pc[p] = "loaded"
    /\ \E in \in OrderInputs(clock, RaceCatalog, {TRUE}) :
          LET run == Conclude(stored,
                              Evaluate(ev.alert_data[p], in.variants,
                                       isoformat(ev.now[p]), in.reads),
                              in)
          IN ev' = [ev EXCEPT
                       !.pc[p] = IF run.saveCalled THEN "mutated" ELSE "done",
                       !.alert_data[p] = run.alert_data]
    /\ UNCHANGED <<stored, clock, last, hist>>

\* line 99
RaceSave(p) ==
    /\ ev.pc[p] = "mutated"
    /\ \E writeOk \in BOOLEAN :
          /\ stored' = save_inventory_alerts(stored, ev.alert_data[p], writeOk)
          /\ ev' = [ev EXCEPT !.pc[p] = "done",
                              !.wrote[p] = writeOk,
                              !.log = Append(@, <<p, "save">>)]
    /\ UNCHANGED <<clock, last, hist>>

NextRace ==
    \/ \E p \in Procs : RaceLoad(p)
    \/ \E p \in Procs : RaceMutate(p)
    \/ \E p \in Procs : RaceSave(p)
    \/ TickHorizon

SpecRace == InitRace /\ [][NextRace]_vars

\* ------------------------------------------------------------------------
\* Properties
\* ------------------------------------------------------------------------
Low(q) == q <= INVENTORY_THRESHOLD

\* C1 (SpecPair: full checks one after the other, every load, fetch, send
\* and save succeeding): a variant whose fetched quantity stays within the
\* threshold and never increases is put in a "Low Inventory Alert"
\* notification by at most one invocation.
C1_AlertedAtMostOnce ==
    \A v \in VariantIds : hist[v].steady => hist[v].alerts <= 1

\* C2: a full check whose catalog fetch succeeded ends by calling
\* save_inventory_alerts with the ledger it mutated, whatever the notifier
\* did.
C2_CycleEndsWithSave ==
    (last.op = "order" /\ last.run.fetched = "ok")
        => last.run.saveCalled

\* C3: a pending reminder made by one alert is put on the due list and
\* handed to the notifier by at most one invocation.
C3_ReminderFiresOnce ==
    \A v \in VariantIds : hist[v].due <= 1

\* C4: a full check whose catalog fetch failed answers its trigger with a
\* status other than success.
C4_FetchFailureReported ==
    (last.op = "order" /\ last.run.fetched = "error") => last.status # 200

\* C5: a full check whose catalog fetch fails leaves the stored ledger as it
\* was, calls neither save_inventory_alerts nor the notifier, and does not
\* run check_reminders.
C5_FetchFailureAborts ==
    [][(last'.op = "order" /\ last'.run.fetched = "error")
          => /\ stored' = stored
             /\ ~last'.run.saveCalled
             /\ last'.run.alert = "none"
             /\ last'.run.reminder = "none"
             /\ ~last'.run.scheduled]_vars

\* a fetch failed while the stored ledger held a reminder that was due
C5_Witness ==
    /\ last.op = "order"
    /\ last.run.fetched = "error"
    /\ stored # NoBlob
    /\ \E v \in DOMAIN stored.pending_reminders :
          clock >= fromisoformat(stored.pending_reminders[v])

\* C6: a request that carries no valid signature (full check) or no valid
\* bearer credential (reminder check) is answered 403 and loads nothing,
\* fetches nothing, notifies nobody and saves nothing.
C6_UnauthenticatedRejected ==
    (last.op # "none" /\ ~last.authentic)
        => /\ last.status = 403
           /\ ~last.run.loaded
           /\ last.run.fetched = "none"
           /\ last.run.alert = "none"
           /\ last.run.reminder = "none"
           /\ ~last.run.saveCalled

\* C7: in the ledger an invocation holds in memory when it ends and in the
\* stored ledger, every key of pending_reminders is a key of alerted_items.
PendingHaveAlerts(l) == DOMAIN l.pending_reminders \subseteq DOMAIN l.alerted_items

C7_PendingHaveAlerts ==
    /\ PendingHaveAlerts(last.run.alert_data)
    /\ stored # NoBlob => PendingHaveAlerts(stored)

\* a reminder check dropped a due reminder from its ledger in memory and
\* kept the alert, while the stored ledger still holds the reminder
C7_Witness ==
    /\ last.op = "reminders"
    /\ stored # NoBlob
    /\ DOMAIN stored.pending_reminders # {}
    /\ DOMAIN last.run.alert_data.pending_reminders = {}
    /\ DOMAIN last.run.alert_data.alerted_items # {}

\* ---- the evaluation loop (SpecEval) ----
Evaluated == ev.phase \in {"first", "second"}

\* the entries of low_inventory_items for variant_id
ItemsFor(items, variant_id) ==
    {i \in 1..Len(items) : items[i].variant_id = variant_id}

\* the evaluation raised an alert for snapshot entry i: one entry in
\* low_inventory_items, the alert recorded with the quantity and the time of
\* line 52, the reminder set to due
Raised(i, due) ==
    LET variant_id == str(ev.variants[i].id)
        inventory == ev.variants[i].inventory_quantity
        out == ev.out
    IN /\ Cardinality(ItemsFor(out.low_inventory_items, variant_id)) = 1
       /\ \A k \in ItemsFor(out.low_inventory_items, variant_id) :
             out.low_inventory_items[k].inventory = inventory
       /\ variant_id \in DOMAIN out.alert_data.alerted_items
       /\ out.alert_data.alerted_items[variant_id] =
             [last_alert |-> isoformat(ev.now), inventory |-> inventory]
       /\ variant_id \in DOMAIN out.alert_data.pending_reminders
       /\ out.alert_data.pending_reminders[variant_id] = isoformat(due)

\* the evaluation left variant_id as it was: no entry in
\* low_inventory_items, its alert and its reminder untouched
Untouched(variant_id) ==
    LET before == ev.alert_data
        after == ev.out.alert_data
    IN /\ ItemsFor(ev.out.low_inventory_items, variant_id) = {}
       /\ variant_id \in DOMAIN after.alerted_items
       /\ after.alerted_items[variant_id] = before.alerted_items[variant_id]
       /\ (variant_id \in DOMAIN after.pending_reminders)
             = (variant_id \in DOMAIN before.pending_reminders)
       /\ variant_id \in DOMAIN before.pending_reminders
             => after.pending_reminders[variant_id]
                  = before.pending_reminders[variant_id]

\* snapshot entry i is low and its variant has no alert in the ledger
FirstTime(i) ==
    /\ Low(ev.variants[i].inventory_quantity)
    /\ str(ev.variants[i].id) \notin DOMAIN ev.alert_data.alerted_items

C9_Idempotent ==
    ev.phase = "second"
        => /\ ev.again.low_inventory_items = <<>>
           /\ ev.again.alert_data = ev.out.alert_data

\* a second evaluation after one that raised an alert and cleared another
C9_Witness ==
    /\ ev.phase = "second"
    /\ ev.out.low_inventory_items # <<>>
    /\ DOMAIN ev.alert_data.alerted_items
          \ DOMAIN ev.out.alert_data.alerted_items # {}

\* snapshot entry i is low, its variant has an alert recorded with a
\* smaller quantity
Increased(i) ==
    /\ Low(ev.variants[i].inventory_quantity)
    /\ str(ev.variants[i].id) \in DOMAIN ev.alert_data.alerted_items
    /\ ev.alert_data.alerted_items[str(ev.variants[i].id)].inventory
          < ev.variants[i].inventory_quantity

\* snapshot entry i has an alert recorded with the same or a larger quantity
NotIncreased(i) ==
    /\ str(ev.variants[i].id) \in DOMAIN ev.alert_data.alerted_items
    /\ ev.variants[i].inventory_quantity
          <= ev.alert_data.alerted_items[str(ev.variants[i].id)].inventory

Recovered(i) ==
    /\ ~Low(ev.variants[i].inventory_quantity)
    /\ str(ev.variants[i].id) \in DOMAIN ev.alert_data.alerted_items

\* C11: a variant fetched above the threshold that had an alert is, after
\* the evaluation, in neither alerted_items nor pending_reminders, and not
\* in low_inventory_items.
C11_RecoveryClears ==
    Evaluated => \A i \in 1..Len(ev.variants) :
        Recovered(i) =>
            LET variant_id == str(ev.variants[i].id)
            IN /\ variant_id \notin DOMAIN ev.out.alert_data.alerted_items
               /\ variant_id \notin DOMAIN ev.out.alert_data.pending_reminders
               /\ ItemsFor(ev.out.low_inventory_items, variant_id) = {}

\* a recovered variant that had both its alert and its reminder
C11_Witness ==
    /\ Evaluated
    /\ \E i \in 1..Len(ev.variants) :
          /\ Recovered(i)
          /\ str(ev.variants[i].id) \in DOMAIN ev.alert_data.pending_reminders

\* snapshot entry i is low and its variant has an alert recorded with a
\* larger quantity
Decreased(i) ==
    /\ Low(ev.variants[i].inventory_quantity)
    /\ str(ev.variants[i].id) \in DOMAIN ev.alert_data.alerted_items
    /\ ev.variants[i].inventory_quantity
          < ev.alert_data.alerted_items[str(ev.variants[i].id)].inventory

\* the number of low_inventory_items entries the evaluation made for
\* snapshot entry i
AlertsFor(i) ==
    Cardinality(ItemsFor(ev.out.low_inventory_items, str(ev.variants[i].id)))

\* C17 as stated: for a variant with an alert and a low fetched quantity,
\* the evaluation re-alerts when the quantity decreased and does not when
\* it is flat or increased.
C17_ReAlertOnDecrease ==
    Evaluated => \A i \in 1..Len(ev.variants) :
        /\ Decreased(i) => AlertsFor(i) = 1
        /\ (NotIncreased(i) /\ ~Decreased(i)) => AlertsFor(i) = 0
        /\ Increased(i) => AlertsFor(i) = 0

\* C17 as amended: for a variant with an alert and a low fetched quantity,
\* the evaluation re-alerts when the quantity increased and does not when
\* it is flat or decreased.
C17_ReAlertDirection ==
    Evaluated => \A i \in 1..Len(ev.variants) :
        /\ Increased(i) => AlertsFor(i) = 1
        /\ (NotIncreased(i) /\ ~Decreased(i)) => AlertsFor(i) = 0
        /\ Decreased(i) => AlertsFor(i) = 0

\* one snapshot with a decreased variant and an increased one
C17_Witness ==
    /\ Evaluated
    /\ \E i \in 1..Len(ev.variants) : Decreased(i)
    /\ \E i \in 1..Len(ev.variants) : Increased(i)

\* the entry of variant_id in a dict, or the dict's lack of one
Entry(d, variant_id) ==
    IF variant_id \in DOMAIN d THEN <<d[variant_id]>> ELSE <<>>

SnapshotIds(variants) == {str(variants[i].id) : i \in 1..Len(variants)}

\* C19: for a variant id that is not in the snapshot, alerted_items and
\* pending_reminders hold after the evaluation what they held before, so
\* its alert is never cleared by evaluations that do not list it.
C19_AbsentVariantsUntouched ==
    /\ Evaluated => \A v \in VariantIds \ SnapshotIds(ev.variants) :
          /\ Entry(ev.out.alert_data.alerted_items, v)
                = Entry(ev.alert_data.alerted_items, v)
          /\ Entry(ev.out.alert_data.pending_reminders, v)
                = Entry(ev.alert_data.pending_reminders, v)
    /\ ev.phase = "second" => \A v \in VariantIds \ SnapshotIds(ev.variants) :
          /\ Entry(ev.again.alert_data.alerted_items, v)
                = Entry(ev.alert_data.alerted_items, v)
          /\ Entry(ev.again.alert_data.pending_reminders, v)
                = Entry(ev.alert_data.pending_reminders, v)

\* a variant with an alert and a reminder is missing from a snapshot whose
\* evaluation raised an alert for another variant
C19_Witness ==
    /\ ev.phase = "second"
    /\ ev.out.low_inventory_items # <<>>
    /\ \E v \in VariantIds \ SnapshotIds(ev.variants) :
          /\ v \in DOMAIN ev.alert_data.alerted_items
          /\ v \in DOMAIN ev.alert_data.pending_reminders

\* C13: an authenticated invocation that got as far as loading the ledger
\* answers its trigger with the success status, whatever the save and the
\* notifier did.
C13_OnlyFetchFailureReported ==
    (last.op # "none" /\ last.authentic /\ last.run.loaded)
        => last.status = 200

\* C15: an invocation whose check_reminders found a non-empty due list
\* reaches a delivery attempt for the reminder message: the notifier either
\* sent it or was refused by the mail provider.
C15_DueReminderDelivered ==
    last.run.reminder_items # <<>> => last.run.reminder \in {"sent", "failed"}

\* the ledger the one invocation loaded
Loaded == load_inventory_alerts(ev.before, ev.in.readOk)

\* an authorised reminder check has run
RanReminders == ev.phase = "ran" /\ last.op = "reminders" /\ last.authentic

\* the number of entries of the due list that name variant_id
DueCount(variant_id) ==
    Cardinality({i \in 1..Len(last.run.reminder_items) :
                    last.run.reminder_items[i].variant_id = variant_id})

\* C12: check_reminders run at time now on a ledger: a pending entry whose
\* date is after now stays as it was and its variant is not on the due
\* list; an entry whose date is now or earlier is gone from the ledger
\* when the function ends, whatever became of the notification, and its
\* variant is on the due list once if it has an alert and not at all if it
\* has none.
C12_ReminderStep ==
    RanReminders => \A v \in DOMAIN Loaded.pending_reminders :
        IF ev.in.remNow < fromisoformat(Loaded.pending_reminders[v])
        THEN /\ Entry(last.run.alert_data.pending_reminders, v)
                   = <<Loaded.pending_reminders[v]>>
             /\ DueCount(v) = 0
        ELSE /\ v \notin DOMAIN last.run.alert_data.pending_reminders
             /\ DueCount(v) = IF v \in DOMAIN Loaded.alerted_items THEN 1 ELSE 0

\* of three reminders' fates two happen in one call: one entry is not yet
\* due; another is due on this very day, has an alert, and the
\* notification for it came to nothing
C12_Witness ==
    /\ RanReminders
    /\ last.run.reminder # "sent"
    /\ \E v, w \in DOMAIN Loaded.pending_reminders :
          /\ ev.in.remNow < fromisoformat(Loaded.pending_reminders[v])
          /\ ev.in.remNow = fromisoformat(Loaded.pending_reminders[w])
          /\ w \in DOMAIN Loaded.alerted_items

\* the alerts a first evaluation of the snapshot at time now leaves
FirstAlerts(variants, now) ==
    [v \in {str(variants[i].id) :
               i \in {j \in 1..Len(variants) :
                         Low(variants[j].inventory_quantity)}} |->
        [last_alert |-> isoformat(now),
         inventory |-> CHOOSE q \in Fetched(variants, v) : TRUE]]

\* no ledger could be read: the bucket holds none, or the read raised
NothingRead == ev.before = NoBlob \/ ~ev.in.readOk

\* C14: an invocation that gets to load_inventory_alerts and finds no
\* stored ledger, or whose read of it raises, carries on with the empty ledger and answers 200: a full check
\* whose fetch succeeds raises one alert for every variant of the snapshot
\* at or under the threshold, as for a variant never alerted, and records
\* just those; a reminder check finds nothing due.
C14_LoadNeverFails ==
    (ev.phase = "ran" /\ last.authentic /\ ev.in.bound /\ NothingRead)
        => /\ Loaded = EmptyLedger
           /\ last.run.loaded
           /\ last.status = 200
           /\ (last.op = "order" /\ ev.in.fetchOk)
                 => /\ \A i \in 1..Len(ev.in.variants) :
                          Cardinality(ItemsFor(last.run.low_inventory_items,
                                               str(ev.in.variants[i].id)))
                             = IF Low(ev.in.variants[i].inventory_quantity)
                               THEN 1 ELSE 0
                    /\ last.run.alert_data.alerted_items
                          = FirstAlerts(ev.in.variants, ev.in.now)
           /\ last.op = "reminders"
                 => /\ last.run.reminder_items = <<>>
                    /\ last.run.alert_data = EmptyLedger

\* the read raised on a bucket whose ledger has an alert for a variant at
\* the quantity the snapshot shows for it, and the full check alerted
C14_Witness ==
    /\ ev.phase = "ran" /\ last.op = "order" /\ ev.in.fetchOk
    /\ ~ev.in.readOk
    /\ ev.before # NoBlob
    /\ \E i \in 1..Len(ev.in.variants) :
          LET variant_id == str(ev.in.variants[i].id)
          IN /\ variant_id \in DOMAIN ev.before.alerted_items
             /\ ev.before.alerted_items[variant_id].inventory
                   = ev.in.variants[i].inventory_quantity
             /\ ItemsFor(last.run.low_inventory_items, variant_id) # {}

\* C18: a reminder check leaves the stored ledger as it found it, whatever
\* the ledger, the time and the reminders due.
C18_ReminderCheckNeverSaves ==
    (ev.phase = "ran" /\ last.op = "reminders") => stored = ev.before

\* an authorised reminder check took a due reminder out of the ledger it
\* holds in memory
C18_Witness ==
    /\ RanReminders
    /\ ev.before # NoBlob
    /\ last.run.alert_data.pending_reminders # ev.before.pending_reminders
    /\ last.status = 200

\* event a happened, and before event b did
Before(a, b) ==
    \E i, j \in 1..Len(ev.log) : i < j /\ ev.log[i] = a /\ ev.log[j] = b

\* each of the two instances loaded before the other saved
Overlapping(p, q) ==
    /\ Before(<<p, "load">>, <<q, "save">>)
    /\ Before(<<q, "load">>, <<p, "save">>)

\* what a ledger holds for a variant
Holds(l, v) == <<Entry(l.alerted_items, v), Entry(l.pending_reminders, v)>>

\* instance p saved a ledger in which it had changed what the ledger holds
\* for v; instance q, which left v as it loaded it, saved after p; the
\* bucket no longer holds p's change
Lost(p, q, v) ==
    /\ ev.wrote[p] /\ ev.wrote[q]
    /\ Before(<<p, "save">>, <<q, "save">>)
    /\ Holds(ev.alert_data[p], v) # Holds(ev.base[p], v)
    /\ Holds(ev.alert_data[q], v) = Holds(ev.base[q], v)
    /\ Holds(load_inventory_alerts(stored, TRUE), v) # Holds(ev.alert_data[p], v)

\* C16: of two full checks on one bucket, a change one of them saved is
\* lost to the other's save only if the two overlapped; two checks of
\* which one loads after the other saved lose nothing.  (That overlapping
\* checks can lose a change is C16_Witness.)
C16_LossOnlyWhenOverlapping ==
    ev.phase = "race" =>
        \A p, q \in Procs : \A v \in VariantIds :
            Lost(p, q, v) => Overlapping(p, q)

\* an interleaving after which a saved change is lost
C16_Witness ==
    /\ ev.phase = "race"
    /\ \E p, q \in Procs : \E v \in VariantIds :
          Lost(p, q, v) /\ Overlapping(p, q)

====
